---- MODULE Spec2Model ----
(***************************************************************************)
(* Model of synthesize_mentions (src/consumerInsight.py).                  *)
(*                                                                         *)
(* The function seeds the two process-wide generators (the random module   *)
(* and numpy.random), then loops n times; every iteration draws a brand,   *)
(* a platform, a polarity, a theme, a text template and three engagement   *)
(* values, and appends one record to rows.                                 *)
(*                                                                         *)
(* Numeric conventions of the model:                                       *)
(*  - probability weights are written in hundredths (0.55 is 55);          *)
(*  - a generator state is a number in 0 .. Resolution-1; one library call *)
(*    (random.choices, random.choice, numpy.random.normal) advances the    *)
(*    state once and reads the uniform fraction u / Resolution from it;    *)
(*  - engagement values before int() are written in tenths (1.5 is 15).    *)
(*  - the template texts are the source literals with the two non-ASCII    *)
(*    punctuation marks (em dash, typographic apostrophe) written - and '. *)
(***************************************************************************)
EXTENDS Integers, Sequences, FiniteSets, TLC

\* ---------------------------------------------------------------- bounds
MaxN == 2
MaxSeed == 3
Resolution == 8
MaxIntrusions == 1

Counts == (0 - 1) .. MaxN
Seeds == 0 .. MaxSeed
States == 0 .. (Resolution - 1)
Invocations == {1, 2}

\* --------------------------------------------------- configuration data
platforms ==
  << "reddit", "youtube", "instagram", "twitter" >>

templates ==
  [
    amazon |-> [
      positive |-> [
        good_deals |-> <<
            "Amazing Black Friday deal-cheaper than everywhere else.",
            "Best price I found, the discount was actually worth it.",
            "Great value for money, saved a lot on this electronics purchase." >>,
        fast_delivery |-> <<
            "Delivered the next day-super fast shipping.",
            "Arrived earlier than expected, delivery was flawless.",
            "Fast delivery even during Black Friday week, impressive." >>,
        easy_ordering |-> <<
            "Ordering was effortless and checkout was smooth.",
            "Super convenient to compare options and buy quickly.",
            "Buying was quick and simple-no hassle." >> ],
      negative |-> [
        bad_customer_service |-> <<
            "Customer service was useless-no real help at all.",
            "Support kept sending me in circles, no clear solution.",
            "It was impossible to reach a helpful human agent." >>,
        exchange_returns_pain |-> <<
            "Exchange was a nightmare, they made it unnecessarily hard.",
            "Return process was confusing and took too long.",
            "Refund was delayed and the return instructions were unclear." >>,
        delivery_issues |-> <<
            "Delayed again-still waiting for my package.",
            "Package arrived damaged / missing items-very frustrating.",
            "Delivery status kept changing and nothing arrived." >>,
        marketplace_trust |-> <<
            "Got a third-party seller product that felt sketchy.",
            "The listing was misleading-didn't match what I received.",
            "Hard to know which sellers are trustworthy." >> ] ],
    mediamarkt |-> [
      positive |-> [
        great_customer_service |-> <<
            "Staff were super helpful and actually listened to what I needed.",
            "Great customer service-felt looked after during the purchase.",
            "They handled my issue quickly and professionally." >>,
        helped_choose_product |-> <<
            "They helped me decide the right laptop for my budget.",
            "In-store advice was excellent-made me confident buying.",
            "The staff explained the differences clearly, no pressure." >>,
        repair_service |-> <<
            "They fixed my phone quickly-great service.",
            "Repair service was smooth and saved me a lot of hassle.",
            "Got help setting up my device and it worked perfectly." >>,
        returns_instore_help |-> <<
            "Returns were easy in-store, no drama.",
            "They exchanged the product without making it complicated.",
            "Refund/return handling was straightforward and fair." >>,
        value_for_money |-> <<
            "Not always the cheapest, but the service made it worth it.",
            "Good value for money because I got real support.",
            "Paid a bit more but felt confident and satisfied." >> ],
      negative |-> [
        slightly_expensive |-> <<
            "A bit more expensive than other online shops for the same product.",
            "Prices felt slightly higher compared to pure online retailers.",
            "Good service, but the price wasn't always the cheapest." >>,
        slow_delivery |-> <<
            "Delivery took too long during Black November.",
            "Shipping was slower than expected, not ideal.",
            "Order arrived late, I expected faster delivery." >>,
        stock_mismatch |-> <<
            "Website said in stock, but the store didn't have it.",
            "Had to wait because the product wasn't available.",
            "Availability info was confusing and not accurate." >> ] ] ]

\* dicts whose order matters to the draw are sequences of <<key, weight>>
brand_weights ==
  << <<"amazon", 55>>, <<"mediamarkt", 45>> >>

polarity_weights ==
  [ amazon     |-> [positive |-> 48, negative |-> 52],
    mediamarkt |-> [positive |-> 55, negative |-> 45] ]

\* theme_weights with one key misspelt (marketplace_trusts)
theme_weights_typo ==
  [ amazon |-> [
      positive |-> << <<"good_deals", 42>>, <<"fast_delivery", 40>>,
                      <<"easy_ordering", 18>> >>,
      negative |-> << <<"bad_customer_service", 38>>,
                      <<"exchange_returns_pain", 34>>,
                      <<"delivery_issues", 18>>, <<"marketplace_trusts", 10>> >> ],
    mediamarkt |-> [
      positive |-> << <<"great_customer_service", 28>>,
                      <<"helped_choose_product", 24>>, <<"repair_service", 20>>,
                      <<"returns_instore_help", 16>>, <<"value_for_money", 12>> >>,
      negative |-> << <<"slightly_expensive", 42>>, <<"slow_delivery", 36>>,
                      <<"stock_mismatch", 22>> >> ] ]

\* theme_weights with one weight mistyped (0.40 written 0.04)
theme_weights_mistyped ==
  [ amazon |-> [
      positive |-> << <<"good_deals", 42>>, <<"fast_delivery", 4>>,
                      <<"easy_ordering", 18>> >>,
      negative |-> << <<"bad_customer_service", 38>>,
                      <<"exchange_returns_pain", 34>>,
                      <<"delivery_issues", 18>>, <<"marketplace_trust", 10>> >> ],
    mediamarkt |-> [
      positive |-> << <<"great_customer_service", 28>>,
                      <<"helped_choose_product", 24>>, <<"repair_service", 20>>,
                      <<"returns_instore_help", 16>>, <<"value_for_money", 12>> >>,
      negative |-> << <<"slightly_expensive", 42>>, <<"slow_delivery", 36>>,
                      <<"stock_mismatch", 22>> >> ] ]

theme_weights ==
  [ amazon |-> [
      positive |-> << <<"good_deals", 42>>, <<"fast_delivery", 40>>,
                      <<"easy_ordering", 18>> >>,
      negative |-> << <<"bad_customer_service", 38>>,
                      <<"exchange_returns_pain", 34>>,
                      <<"delivery_issues", 18>>, <<"marketplace_trust", 10>> >> ],
    mediamarkt |-> [
      positive |-> << <<"great_customer_service", 28>>,
                      <<"helped_choose_product", 24>>, <<"repair_service", 20>>,
                      <<"returns_instore_help", 16>>, <<"value_for_money", 12>> >>,
      negative |-> << <<"slightly_expensive", 42>>, <<"slow_delivery", 36>>,
                      <<"stock_mismatch", 22>> >> ] ]

\* ------------------------------------------------------------- helpers
\* list(weight_dict.keys()) and list(weight_dict.values())
Keys(d) == [k \in 1 .. Len(d) |-> d[k][1]]

Values(d) == [k \in 1 .. Len(d) |-> d[k][2]]

RECURSIVE Sum(_)
Sum(w) == IF Len(w) = 0 THEN 0 ELSE w[1] + Sum(Tail(w))

\* itertools.accumulate(weights)
Accumulate(w) == [k \in 1 .. Len(w) |-> Sum(SubSeq(w, 1, k))]

\* bisect.bisect_right(a, x, lo, hi) with x = u * total / Resolution;
\* lo and hi are Python's 0-based positions
RECURSIVE Bisect(_, _, _, _, _)
Bisect(a, u, total, lo, hi) ==
  IF lo < hi
  THEN LET mid == (lo + hi) \div 2
       IN IF u * total < a[mid + 1] * Resolution
          THEN Bisect(a, u, total, lo, mid)
          ELSE Bisect(a, u, total, mid + 1, hi)
  ELSE lo

Ok(v) == [err |-> "none", val |-> v]

Raise(e) == [err |-> e, val |-> ""]

\* random.choices(population, weights=weights, k=1)[0] driven by uniform u
choices(population, weights, u) ==
  LET cum == Accumulate(weights)
      cnt == Len(population)
  IN IF Len(cum) # cnt THEN Raise("ValueError")
     ELSE IF cnt = 0 THEN Raise("IndexError")
     ELSE IF cum[cnt] <= 0 THEN Raise("ValueError")
     ELSE Ok(population[Bisect(cum, u, cum[cnt], 0, cnt - 1) + 1])

\* random.choice(seq) driven by uniform u
choice(seq, u) ==
  IF Len(seq) = 0 THEN Raise("IndexError")
  ELSE Ok(seq[((u * Len(seq)) \div Resolution) + 1])

\* weighted_choice(weight_dict)
weighted_choice(weight_dict, u) ==
  choices(Keys(weight_dict), Values(weight_dict), u)

\* d[k] on a dict modelled as a function: KeyError when k is no key
HasKey(d, k) == k \in DOMAIN d

\* random.seed(seed) / np.random.seed(seed): the state a seed produces
random_seed(s) == s % Resolution

np_random_seed(s) == (3 * s + 1) % Resolution

\* one value consumed from a generator: the next state, read as u
random_next(s) == (5 * s + 3) % Resolution

np_random_next(s) == (5 * s + 7) % Resolution

\* standard normal deviate, in tenths, read from a numpy state
Gauss(u) == ((2 * u + 1 - Resolution) * 30) \div Resolution

\* np.random.normal(loc, scale): loc in tenths, result in tenths
normal(loc, scale, u) == loc + scale * Gauss(u)

\* loc of the three engagement draws (tenths), selected by polarity
likes_loc(pol) == IF pol = "positive" THEN 220 ELSE 180

replies_loc(pol) == IF pol = "positive" THEN 40 ELSE 70

shares_loc(pol) == IF pol = "positive" THEN 20 ELSE 15

\* int(x) on a value in tenths: truncation toward zero
int(x) == IF x >= 0 THEN x \div 10 ELSE 0 - ((0 - x) \div 10)

\* max(0, x)
max0(x) == IF x > 0 THEN x ELSE 0

\* int(base): the floor at zero forgotten
clip_unfloored(base) == int(base)

\* int(max(0, base))
clip(base) == int(max0(base))

\* f"{i:04d}"
RECURSIVE ZeroPad(_, _)
ZeroPad(str, width) ==
  IF Len(str) >= width THEN str ELSE ZeroPad("0" \o str, width)

\* f"{i}": the padding forgotten
format_04d_unpadded(k) == ToString(k)

format_04d(k) == ZeroPad(ToString(k), 4)

\* f"m_{i:04d}"
format_id(k) == "m_" \o format_04d(k)

\* --------------------------------------------------------------- state
VARIABLES
  rnd,          \* state of the process-wide generator of the random module
  nprnd,        \* state of the process-wide generator of numpy.random
  pc,           \* position of each invocation of synthesize_mentions
  n, seed,      \* arguments of each invocation
  it,           \* next value range(n) hands out
  i, brand, platform, polarity, theme, text,
  base_likes, base_replies, base_shares,
  likes, replies, shares,
  rows,         \* the list the loop appends to
  ret,          \* the records of the returned DataFrame
  outcome,      \* "pending", "returned", or the exception that escaped
  trace,        \* the generator draws each invocation made, in order
  intruded      \* draws other code made while an invocation was running

gens == <<rnd, nprnd>>

args == <<n, seed>>

sampled == <<brand, platform, polarity, theme, text>>

engagement == <<base_likes, base_replies, base_shares, likes, replies, shares>>

vars == <<rnd, nprnd, pc, n, seed, it, i, brand, platform, polarity, theme,
          text, base_likes, base_replies, base_shares, likes, replies,
          shares, rows, ret, outcome, trace, intruded>>

Init ==
  /\ rnd = 0
  /\ nprnd = 0
  /\ pc = [p \in Invocations |-> "idle"]
  /\ n = [p \in Invocations |-> 0]
  /\ seed = [p \in Invocations |-> 0]
  /\ it = [p \in Invocations |-> 0]
  /\ i = [p \in Invocations |-> 0]
  /\ brand = [p \in Invocations |-> ""]
  /\ platform = [p \in Invocations |-> ""]
  /\ polarity = [p \in Invocations |-> ""]
  /\ theme = [p \in Invocations |-> ""]
  /\ text = [p \in Invocations |-> ""]
  /\ base_likes = [p \in Invocations |-> 0]
  /\ base_replies = [p \in Invocations |-> 0]
  /\ base_shares = [p \in Invocations |-> 0]
  /\ likes = [p \in Invocations |-> 0]
  /\ replies = [p \in Invocations |-> 0]
  /\ shares = [p \in Invocations |-> 0]
  /\ rows = [p \in Invocations |-> << >>]
  /\ ret = [p \in Invocations |-> << >>]
  /\ outcome = [p \in Invocations |-> "pending"]
  /\ trace = [p \in Invocations |-> << >>]
  /\ intruded = 0

Running(p) == pc[p] \notin {"idle", "done"}

\* no invocation is between its entry and its exit
Quiet == \A p \in Invocations : ~Running(p)

\* one entry of trace: which draw of iteration k, on which generator, the
\* value it produced (a label or a text) and, for an engagement draw, the
\* loc it was made with and the raw value, both in tenths
Drawn(k, what, gen, val, loc, raw) ==
  [i |-> k, what |-> what, gen |-> gen, val |-> val, loc |-> loc, raw |-> raw]

\* an exception leaves the function: nothing is returned
Throw(p, e) ==
  /\ pc' = [pc EXCEPT ![p] = "done"]
  /\ outcome' = [outcome EXCEPT ![p] = e]

Goto(p, label) ==
  /\ pc' = [pc EXCEPT ![p] = label]
  /\ outcome' = outcome

\* ------------------------------------------------------------- actions
\* a caller enters synthesize_mentions(cnt, sd); the program is
\* single-threaded, so no other invocation is running; the invocations are
\* numbered in the order they are made
Call(p) ==
  \E cnt \in Counts, sd \in Seeds :
    /\ pc[p] = "idle"
    /\ Quiet
    /\ \A q \in Invocations : q < p => pc[q] = "done"
    /\ n' = [n EXCEPT ![p] = cnt]
    /\ seed' = [seed EXCEPT ![p] = sd]
    /\ Goto(p, "seed_random")
    /\ UNCHANGED <<gens, it, i, sampled, engagement, rows, ret, trace, intruded>>

\* the function entered without random.seed(seed)
SeedRandom_Skipped(p) ==
  /\ pc[p] = "seed_random"
  /\ Goto(p, "seed_numpy")
  /\ UNCHANGED <<gens, args, it, i, sampled, engagement, rows, ret, trace, intruded>>

\* random.seed(seed)
SeedRandom(p) ==
  /\ pc[p] = "seed_random"
  /\ rnd' = random_seed(seed[p])
  /\ Goto(p, "seed_numpy")
  /\ UNCHANGED <<nprnd, args, it, i, sampled, engagement, rows, ret, trace, intruded>>

\* np.random.seed(seed + n): the seed made to depend on the count
SeedNumpy_CountDependent(p) ==
  /\ pc[p] = "seed_numpy"
  /\ nprnd' = np_random_seed(seed[p] + n[p])
  /\ Goto(p, "rows")
  /\ UNCHANGED <<rnd, args, it, i, sampled, engagement, rows, ret, trace, intruded>>

\* np.random.seed(seed)
SeedNumpy(p) ==
  /\ pc[p] = "seed_numpy"
  /\ nprnd' = np_random_seed(seed[p])
  /\ Goto(p, "rows")
  /\ UNCHANGED <<rnd, args, it, i, sampled, engagement, rows, ret, trace, intruded>>

\* rows = []
InitRows(p) ==
  /\ pc[p] = "rows"
  /\ rows' = [rows EXCEPT ![p] = << >>]
  /\ it' = [it EXCEPT ![p] = 0]
  /\ Goto(p, "for")
  /\ UNCHANGED <<gens, args, i, sampled, engagement, ret, trace, intruded>>

\* range(abs(n))
range_has_next_abs(k, cnt) == k < (IF cnt < 0 THEN 0 - cnt ELSE cnt)

\* range(n) has a value left to hand out after k values
range_has_next(k, cnt) == k < cnt

\* for i in range(n):
For(p) ==
  /\ pc[p] = "for"
  /\ IF range_has_next(it[p], n[p])
     THEN /\ i' = [i EXCEPT ![p] = it[p]]
          /\ it' = [it EXCEPT ![p] = it[p] + 1]
          /\ Goto(p, "brand")
     ELSE /\ Goto(p, "return")
          /\ UNCHANGED <<i, it>>
  /\ UNCHANGED <<gens, args, sampled, engagement, rows, ret, trace, intruded>>

\* the brand draw followed at once by the polarity draw
DrawBrand_ThenPolarity(p) ==
  LET u == random_next(rnd)
      r == choices(Keys(brand_weights), Values(brand_weights), u)
  IN /\ pc[p] = "brand"
     /\ IF r.err = "none"
        THEN /\ rnd' = u
             /\ brand' = [brand EXCEPT ![p] = r.val]
             /\ trace' = [trace EXCEPT ![p] =
                  Append(@, Drawn(i[p], "brand", "random", r.val, 0, 0))]
             /\ Goto(p, "polarity")
        ELSE /\ Throw(p, r.err)
             /\ UNCHANGED <<rnd, brand, trace>>
     /\ UNCHANGED <<nprnd, args, it, i, platform, polarity, theme, text,
                    engagement, rows, ret, intruded>>

\* brand = random.choices(list(brand_weights.keys()), weights=..., k=1)[0]
DrawBrand(p) ==
  LET u == random_next(rnd)
      r == choices(Keys(brand_weights), Values(brand_weights), u)
  IN /\ pc[p] = "brand"
     /\ IF r.err = "none"
        THEN /\ rnd' = u
             /\ brand' = [brand EXCEPT ![p] = r.val]
             /\ trace' = [trace EXCEPT ![p] =
                  Append(@, Drawn(i[p], "brand", "random", r.val, 0, 0))]
             /\ Goto(p, "platform")
        ELSE /\ Throw(p, r.err)
             /\ UNCHANGED <<rnd, brand, trace>>
     /\ UNCHANGED <<nprnd, args, it, i, platform, polarity, theme, text,
                    engagement, rows, ret, intruded>>

\* platform = random.choice(platforms)
DrawPlatform(p) ==
  LET u == random_next(rnd)
      r == choice(platforms, u)
  IN /\ pc[p] = "platform"
     /\ IF r.err = "none"
        THEN /\ rnd' = u
             /\ platform' = [platform EXCEPT ![p] = r.val]
             /\ trace' = [trace EXCEPT ![p] =
                  Append(@, Drawn(i[p], "platform", "random", r.val, 0, 0))]
             /\ Goto(p, "polarity")
        ELSE /\ Throw(p, r.err)
             /\ UNCHANGED <<rnd, platform, trace>>
     /\ UNCHANGED <<nprnd, args, it, i, brand, polarity, theme, text,
                    engagement, rows, ret, intruded>>

\* polarity = random.choices(["positive", "negative"],
\*     weights=[polarity_weights[brand]["positive"],
\*              polarity_weights[brand]["negative"]], k=1)[0]
polarity_draw(b, u) ==
  IF /\ HasKey(polarity_weights, b)
     /\ HasKey(polarity_weights[b], "positive")
     /\ HasKey(polarity_weights[b], "negative")
  THEN choices(<<"positive", "negative">>,
               <<polarity_weights[b]["positive"],
                 polarity_weights[b]["negative"]>>, u)
  ELSE Raise("KeyError")

DrawPolarity(p) ==
  LET u == random_next(rnd)
      r == polarity_draw(brand[p], u)
  IN /\ pc[p] = "polarity"
     /\ IF r.err = "none"
        THEN /\ rnd' = u
             /\ polarity' = [polarity EXCEPT ![p] = r.val]
             /\ trace' = [trace EXCEPT ![p] =
                  Append(@, Drawn(i[p], "polarity", "random", r.val, 0, 0))]
             /\ Goto(p, "theme")
        ELSE /\ Throw(p, r.err)
             /\ UNCHANGED <<rnd, polarity, trace>>
     /\ UNCHANGED <<nprnd, args, it, i, brand, platform, theme, text,
                    engagement, rows, ret, intruded>>

\* theme = weighted_choice(theme_weights[brand][polarity])
theme_draw(b, pol, u) ==
  IF HasKey(theme_weights, b) /\ HasKey(theme_weights[b], pol)
  THEN weighted_choice(theme_weights[b][pol], u)
  ELSE Raise("KeyError")

DrawTheme(p) ==
  LET u == random_next(rnd)
      r == theme_draw(brand[p], polarity[p], u)
  IN /\ pc[p] = "theme"
     /\ IF r.err = "none"
        THEN /\ rnd' = u
             /\ theme' = [theme EXCEPT ![p] = r.val]
             /\ trace' = [trace EXCEPT ![p] =
                  Append(@, Drawn(i[p], "theme", "random", r.val, 0, 0))]
             /\ Goto(p, "text")
        ELSE /\ Throw(p, r.err)
             /\ UNCHANGED <<rnd, theme, trace>>
     /\ UNCHANGED <<nprnd, args, it, i, brand, platform, polarity, text,
                    engagement, rows, ret, intruded>>

\* text = random.choice(templates[brand][polarity][theme])
text_draw(b, pol, th, u) ==
  IF /\ HasKey(templates, b)
     /\ HasKey(templates[b], pol)
     /\ HasKey(templates[b][pol], th)
  THEN choice(templates[b][pol][th], u)
  ELSE Raise("KeyError")

DrawText(p) ==
  LET u == random_next(rnd)
      r == text_draw(brand[p], polarity[p], theme[p], u)
  IN /\ pc[p] = "text"
     /\ IF r.err = "none"
        THEN /\ rnd' = u
             /\ text' = [text EXCEPT ![p] = r.val]
             /\ trace' = [trace EXCEPT ![p] =
                  Append(@, Drawn(i[p], "text", "random", r.val, 0, 0))]
             /\ Goto(p, "likes")
        ELSE /\ Throw(p, r.err)
             /\ UNCHANGED <<rnd, text, trace>>
     /\ UNCHANGED <<nprnd, args, it, i, brand, platform, polarity, theme,
                    engagement, rows, ret, intruded>>

\* base_likes = np.random.normal(loc=22 if polarity == "positive" else 18,
\*                               scale=14)
DrawLikes(p) ==
  LET u == np_random_next(nprnd)
      loc == likes_loc(polarity[p])
      raw == normal(loc, 14, u)
  IN /\ pc[p] = "likes"
     /\ nprnd' = u
     /\ base_likes' = [base_likes EXCEPT ![p] = raw]
     /\ trace' = [trace EXCEPT ![p] =
          Append(@, Drawn(i[p], "likes", "numpy", "", loc, raw))]
     /\ Goto(p, "replies")
     /\ UNCHANGED <<rnd, args, it, i, sampled, base_replies, base_shares,
                    likes, replies, shares, rows, ret, intruded>>

\* base_replies = np.random.normal(loc=4 if polarity == "positive" else 7,
\*                                 scale=6)
DrawReplies(p) ==
  LET u == np_random_next(nprnd)
      loc == replies_loc(polarity[p])
      raw == normal(loc, 6, u)
  IN /\ pc[p] = "replies"
     /\ nprnd' = u
     /\ base_replies' = [base_replies EXCEPT ![p] = raw]
     /\ trace' = [trace EXCEPT ![p] =
          Append(@, Drawn(i[p], "replies", "numpy", "", loc, raw))]
     /\ Goto(p, "shares")
     /\ UNCHANGED <<rnd, args, it, i, sampled, base_likes, base_shares,
                    likes, replies, shares, rows, ret, intruded>>

\* base_shares = np.random.normal(loc=2 if polarity == "positive" else 1.5,
\*                                scale=3)
DrawShares(p) ==
  LET u == np_random_next(nprnd)
      loc == shares_loc(polarity[p])
      raw == normal(loc, 3, u)
  IN /\ pc[p] = "shares"
     /\ nprnd' = u
     /\ base_shares' = [base_shares EXCEPT ![p] = raw]
     /\ trace' = [trace EXCEPT ![p] =
          Append(@, Drawn(i[p], "shares", "numpy", "", loc, raw))]
     /\ Goto(p, "clip")
     /\ UNCHANGED <<rnd, args, it, i, sampled, base_likes, base_replies,
                    likes, replies, shares, rows, ret, intruded>>

\* likes = int(max(0, base_likes)); replies = ...; shares = ...
Clip(p) ==
  /\ pc[p] = "clip"
  /\ likes' = [likes EXCEPT ![p] = clip(base_likes[p])]
  /\ replies' = [replies EXCEPT ![p] = clip(base_replies[p])]
  /\ shares' = [shares EXCEPT ![p] = clip(base_shares[p])]
  /\ Goto(p, "append")
  /\ UNCHANGED <<gens, args, it, i, sampled, base_likes, base_replies,
                 base_shares, rows, ret, trace, intruded>>

\* the dict literal with true_polarity filled with a constant
row_mislabelled(p) ==
  [ id            |-> format_id(i[p]),
    platform      |-> platform[p],
    brand         |-> brand[p],
    text          |-> text[p],
    true_theme    |-> theme[p],
    true_polarity |-> "positive",
    likes         |-> likes[p],
    replies       |-> replies[p],
    shares        |-> shares[p] ]

\* the dict literal of rows.append({...})
row(p) ==
  [ id            |-> format_id(i[p]),
    platform      |-> platform[p],
    brand         |-> brand[p],
    text          |-> text[p],
    true_theme    |-> theme[p],
    true_polarity |-> polarity[p],
    likes         |-> likes[p],
    replies       |-> replies[p],
    shares        |-> shares[p] ]

\* rows.append({...})
AppendRow(p) ==
  /\ pc[p] = "append"
  /\ rows' = [rows EXCEPT ![p] = Append(@, row(p))]
  /\ Goto(p, "for")
  /\ UNCHANGED <<gens, args, it, i, sampled, engagement, ret, trace, intruded>>

\* return pd.DataFrame(rows)
Return(p) ==
  /\ pc[p] = "return"
  /\ ret' = [ret EXCEPT ![p] = rows[p]]
  /\ pc' = [pc EXCEPT ![p] = "done"]
  /\ outcome' = [outcome EXCEPT ![p] = "returned"]
  /\ UNCHANGED <<gens, args, it, i, sampled, engagement, rows, trace, intruded>>

\* other code of the process draws from a process-wide generator
\* between two invocations
ExternalDraw ==
  /\ Quiet
  /\ \/ rnd' = random_next(rnd) /\ nprnd' = nprnd
     \/ nprnd' = np_random_next(nprnd) /\ rnd' = rnd
  /\ UNCHANGED <<pc, args, it, i, sampled, engagement, rows, ret, outcome,
                 trace, intruded>>

\* other code of the process re-seeds a process-wide generator
\* between two invocations
ExternalSeed ==
  /\ Quiet
  /\ \E s \in Seeds :
       \/ rnd' = random_seed(s) /\ nprnd' = nprnd
       \/ nprnd' = np_random_seed(s) /\ rnd' = rnd
  /\ UNCHANGED <<pc, args, it, i, sampled, engagement, rows, ret, outcome,
                 trace, intruded>>

Step(p) ==
  \/ SeedRandom(p) \/ SeedNumpy(p) \/ InitRows(p) \/ For(p)
  \/ DrawBrand(p) \/ DrawPlatform(p) \/ DrawPolarity(p) \/ DrawTheme(p)
  \/ DrawText(p) \/ DrawLikes(p) \/ DrawReplies(p) \/ DrawShares(p)
  \/ Clip(p) \/ AppendRow(p) \/ Return(p)

Next ==
  \/ \E p \in Invocations : Call(p)
  \/ \E p \in Invocations : Step(p)
  \/ ExternalDraw
  \/ ExternalSeed

Spec == Init /\ [][Next]_vars

\* another thread of the process draws from a process-wide generator
\* while an invocation is running
InterleavedDraw ==
  /\ ~Quiet
  /\ intruded < MaxIntrusions
  /\ intruded' = intruded + 1
  /\ \/ rnd' = random_next(rnd) /\ nprnd' = nprnd
     \/ nprnd' = np_random_next(nprnd) /\ rnd' = rnd
  /\ UNCHANGED <<pc, args, it, i, sampled, engagement, rows, ret, outcome, trace>>

\* the invocations, and the draws of the other thread that fall inside them
NextInterleaved ==
  \/ \E p \in Invocations : Call(p)
  \/ \E p \in Invocations : Step(p)
  \/ InterleavedDraw

SpecInterleaved == Init /\ [][NextInterleaved]_vars

\* ------------------------------------------- the function run on its own
\* the records synthesize_mentions(cnt, sd) builds when nothing else
\* touches the generators between its entry and its return
RECURSIVE solo_loop(_, _, _, _, _)
solo_loop(k, cnt, sr, sn, acc) ==
  IF ~range_has_next(k, cnt) THEN acc
  ELSE LET u1 == random_next(sr)
           b == choices(Keys(brand_weights), Values(brand_weights), u1).val
           u2 == random_next(u1)
           pf == choice(platforms, u2).val
           u3 == random_next(u2)
           pol == polarity_draw(b, u3).val
           u4 == random_next(u3)
           th == theme_draw(b, pol, u4).val
           u5 == random_next(u4)
           tx == text_draw(b, pol, th, u5).val
           v1 == np_random_next(sn)
           v2 == np_random_next(v1)
           v3 == np_random_next(v2)
           r == [ id            |-> format_id(k),
                  platform      |-> pf,
                  brand         |-> b,
                  text          |-> tx,
                  true_theme    |-> th,
                  true_polarity |-> pol,
                  likes         |-> clip(normal(likes_loc(pol), 14, v1)),
                  replies       |-> clip(normal(replies_loc(pol), 6, v2)),
                  shares        |-> clip(normal(shares_loc(pol), 3, v3)) ]
       IN solo_loop(k + 1, cnt, u5, v3, Append(acc, r))

SoloRows(cnt, sd) ==
  solo_loop(0, cnt, random_seed(sd), np_random_seed(sd), << >>)

\* ------------------------------------------------------------ properties
Returned(p) == pc[p] = "done" /\ outcome[p] = "returned"

Range(f) == {f[k] : k \in DOMAIN f}

\* the positions of trace[p] holding the draw `what` of iteration k
EntriesOf(p, k, what) ==
  {j \in 1 .. Len(trace[p]) : trace[p][j].i = k /\ trace[p][j].what = what}

\* every invocation's draws follow `order` inside an iteration, and the
\* iterations follow each other in index order
TraceFollows(order) ==
  \A p \in Invocations : \A j \in 1 .. Len(trace[p]) :
    /\ trace[p][j].what = order[((j - 1) % Len(order)) + 1]
    /\ trace[p][j].i = (j - 1) \div Len(order)

\* C1: two invocations with the same count N >= 0 and the same seed return
\* the same records, field for field, whatever draws and re-seedings of the
\* process-wide generators happened before each of them.
C1_SameArgsSameRecords ==
  \A p, q \in Invocations :
    (Returned(p) /\ Returned(q) /\ n[p] >= 0 /\ n[p] = n[q] /\ seed[p] = seed[q])
      => ret[p] = ret[q]

C1_Witness ==
  \E p, q \in Invocations :
    /\ p # q /\ Returned(p) /\ Returned(q)
    /\ n[p] = n[q] /\ seed[p] = seed[q] /\ Len(ret[p]) >= 1

ClaimedOrder ==
  << "brand", "polarity", "theme", "platform", "text",
     "likes", "replies", "shares" >>

CodeOrder ==
  << "brand", "platform", "polarity", "theme", "text",
     "likes", "replies", "shares" >>

\* C2 (as claimed): in every iteration the draws happen in the order brand,
\* polarity, theme, platform, template, likes, replies, shares, and the
\* iterations run in record-index order.
C2_ClaimedDrawOrder == TraceFollows(ClaimedOrder)

\* C2 (amended): in every iteration the draws happen in the order brand,
\* platform, polarity, theme, template, likes, replies, shares, and the
\* iterations run in record-index order: no draw of record i+1 precedes a
\* draw of record i.
C2_CodeDrawOrder == TraceFollows(CodeOrder)

C2_Witness ==
  \E p \in Invocations :
    /\ Len(trace[p]) = 2 * Len(CodeOrder)
    /\ trace[p][Len(trace[p])].i = 1

\* C3 (as claimed): an invocation with a negative count ends in an
\* InvalidArgument error, with no draw made and nothing returned.
C3_NegativeCountRaises ==
  \A p \in Invocations :
    (pc[p] = "done" /\ n[p] < 0)
      => (outcome[p] = "InvalidArgument" /\ trace[p] = << >>)

\* C3 (amended): an invocation with a negative count re-seeds both
\* process-wide generators from its seed, makes no sampling draw, raises no
\* error and returns an empty record sequence.
C3_NegativeCountReturnsEmpty ==
  \A p \in Invocations :
    (n[p] < 0) =>
      /\ trace[p] = << >>
      /\ rows[p] = << >>
      /\ pc[p] \in {"rows", "for", "return"}
           => (rnd = random_seed(seed[p]) /\ nprnd = np_random_seed(seed[p]))
      /\ pc[p] = "done" => (outcome[p] = "returned" /\ ret[p] = << >>)

C3_Witness ==
  \E p \in Invocations : n[p] < 0 /\ Returned(p) /\ Len(ret[p]) = 0

\* C4 (as claimed): a run owns its pseudo-random sequence, so a run that
\* is interleaved with unrelated draws on the process-wide generators still
\* returns exactly the records it returns when executed alone with the same
\* count and seed.
C4_InterleavedRunEqualsSoloRun ==
  \A p \in Invocations :
    Returned(p) => ret[p] = SoloRows(n[p], seed[p])

ExpectedIds ==
  << "m_0000", "m_0001", "m_0002", "m_0003", "m_0004", "m_0005" >>

\* C5: an invocation with count N >= 0 returns exactly N records (none for
\* N = 0); the record at position i (from 0) has id m_ followed by i
\* zero-padded to four digits, and the ids are pairwise distinct.
C5_CountAndIds ==
  \A p \in Invocations :
    /\ (Returned(p) /\ n[p] >= 0) => Len(ret[p]) = n[p]
    /\ \A k \in 1 .. Len(rows[p]) :
         /\ rows[p][k].id = ExpectedIds[k]
         /\ \A j \in 1 .. (k - 1) : rows[p][j].id # rows[p][k].id

C5_Witness ==
  \E p \in Invocations :
    \E q \in Invocations :
      /\ Returned(p) /\ n[p] = 0 /\ ret[p] = << >>
      /\ Returned(q) /\ n[q] = MaxN /\ ret[q][MaxN].id = ExpectedIds[MaxN]

WeightOf(d, key) ==
  IF \E k \in 1 .. Len(d) : d[k][1] = key
  THEN d[CHOOSE k \in 1 .. Len(d) : d[k][1] = key][2]
  ELSE 0

\* C6: for every emitted record, brand, true_polarity and true_theme have
\* nonzero weight in brand_weights, polarity_weights[brand] and
\* theme_weights[brand][true_polarity]; text is one of the strings of
\* templates[brand][true_polarity][true_theme]; and the labels stored are
\* the values sampled in that record's iteration.
C6_LabelsAndTextConsistent ==
  \A p \in Invocations : \A k \in 1 .. Len(rows[p]) :
    LET r == rows[p][k]
        Sampled(what, v) ==
          /\ EntriesOf(p, k - 1, what) # {}
          /\ \A j \in EntriesOf(p, k - 1, what) : trace[p][j].val = v
    IN /\ WeightOf(brand_weights, r.brand) > 0
       /\ HasKey(polarity_weights, r.brand)
       /\ HasKey(polarity_weights[r.brand], r.true_polarity)
       /\ polarity_weights[r.brand][r.true_polarity] > 0
       /\ HasKey(theme_weights[r.brand], r.true_polarity)
       /\ WeightOf(theme_weights[r.brand][r.true_polarity], r.true_theme) > 0
       /\ HasKey(templates[r.brand][r.true_polarity], r.true_theme)
       /\ r.text \in Range(templates[r.brand][r.true_polarity][r.true_theme])
       /\ Sampled("brand", r.brand)
       /\ Sampled("polarity", r.true_polarity)
       /\ Sampled("theme", r.true_theme)
       /\ Sampled("text", r.text)

C6_Witness ==
  \E p \in Invocations :
    /\ Len(rows[p]) = 2
    /\ rows[p][1].brand # rows[p][2].brand
    /\ rows[p][1].true_polarity # rows[p][2].true_polarity

\* floor at zero, then truncate: a value in tenths below 1.0 becomes 0
FlooredAndTruncated(raw) == IF raw < 10 THEN 0 ELSE raw \div 10

\* C7: for every emitted record, likes, replies and shares are non-negative
\* integers equal to the raw draw floored at zero and truncated (0 whenever
\* the raw draw is below 1), and the mean of each raw draw is the one the
\* record's true_polarity selects: likes 22/18, replies 4/7, shares 2/1.5.
C7_EngagementClipped ==
  \A p \in Invocations : \A k \in 1 .. Len(rows[p]) :
    LET r == rows[p][k]
        pos == r.true_polarity = "positive"
        Drew(what, v, loc) ==
          /\ v \in Nat
          /\ EntriesOf(p, k - 1, what) # {}
          /\ \A j \in EntriesOf(p, k - 1, what) :
               /\ v = FlooredAndTruncated(trace[p][j].raw)
               /\ trace[p][j].loc = loc
    IN /\ Drew("likes", r.likes, IF pos THEN 220 ELSE 180)
       /\ Drew("replies", r.replies, IF pos THEN 40 ELSE 70)
       /\ Drew("shares", r.shares, IF pos THEN 20 ELSE 15)

C7_Witness ==
  \E p \in Invocations : \E k \in 1 .. Len(rows[p]) :
    \E j \in EntriesOf(p, k - 1, "replies") :
      \E h \in EntriesOf(p, k - 1, "likes") :
        /\ trace[p][j].raw < 0 /\ rows[p][k].replies = 0
        /\ trace[p][h].raw >= 10 /\ rows[p][k].likes >= 1
        /\ rows[p][k].true_polarity = "negative"

Polarities == {"positive", "negative"}

\* C8: every brand of brand_weights and every polarity have an entry at
\* the next tier, every (brand, polarity, theme) of nonzero weight has a
\* non-empty template list, and no invocation ends in an unknown-key lookup
\* or an empty collection.
C8_TablesCoverEverySampledKey ==
  /\ \A b \in Range(Keys(brand_weights)) :
       /\ HasKey(polarity_weights, b)
       /\ HasKey(theme_weights, b)
       /\ HasKey(templates, b)
       /\ \A pol \in Polarities :
            /\ HasKey(polarity_weights[b], pol)
            /\ HasKey(theme_weights[b], pol)
            /\ HasKey(templates[b], pol)
            /\ Len(theme_weights[b][pol]) >= 1
            /\ \A th \in Range(Keys(theme_weights[b][pol])) :
                 WeightOf(theme_weights[b][pol], th) > 0
                   => /\ HasKey(templates[b][pol], th)
                      /\ Len(templates[b][pol][th]) >= 1
  /\ \A p \in Invocations :
       outcome[p] \in {"pending", "returned"}

C8_Witness ==
  \E p \in Invocations :
    /\ Returned(p) /\ Len(ret[p]) = MaxN
    /\ \E k \in 1 .. MaxN : ret[p][k].true_theme = "fast_delivery"

AllPositive(w) == \A k \in 1 .. Len(w) : w[k] > 0

\* C9: brand_weights, polarity_weights[b] for each brand b and
\* theme_weights[b][p] for each (brand, polarity) pair have only positive
\* weights that sum to 1.0, that is to 100 hundredths; so does every
\* distribution an invocation is about to sample from.
C9_WeightsSumToOne ==
  /\ AllPositive(Values(brand_weights))
  /\ Sum(Values(brand_weights)) = 100
  /\ \A b \in DOMAIN polarity_weights :
       /\ \A pol \in DOMAIN polarity_weights[b] : polarity_weights[b][pol] > 0
       /\ DOMAIN polarity_weights[b] = Polarities
       /\ polarity_weights[b]["positive"] + polarity_weights[b]["negative"] = 100
  /\ \A b \in DOMAIN theme_weights : \A pol \in DOMAIN theme_weights[b] :
       /\ AllPositive(Values(theme_weights[b][pol]))
       /\ Sum(Values(theme_weights[b][pol])) = 100
  /\ \A p \in Invocations :
       pc[p] = "theme" =>
         Sum(Values(theme_weights[brand[p]][polarity[p]])) = 100

C9_Witness ==
  \E p \in Invocations :
    /\ pc[p] = "theme" /\ brand[p] = "amazon" /\ polarity[p] = "negative"
    /\ Len(theme_weights[brand[p]][polarity[p]]) = 4

\* the draws iteration k of invocation p made on generator gen
DrawsOn(p, k, gen) ==
  {j \in 1 .. Len(trace[p]) : trace[p][j].i = k /\ trace[p][j].gen = gen}

\* C10: every finished iteration made five draws on the random module and
\* three on numpy.random, and for every seed and all 0 <= N <= M the
\* records of an invocation with count N are the first N records of an
\* invocation with count M.
C10_PrefixOfLongerRun ==
  /\ \A p \in Invocations : \A k \in 1 .. Len(rows[p]) :
       /\ Cardinality(DrawsOn(p, k - 1, "random")) = 5
       /\ Cardinality(DrawsOn(p, k - 1, "numpy")) = 3
  /\ \A p, q \in Invocations :
       (Returned(p) /\ Returned(q) /\ seed[p] = seed[q]
          /\ 0 <= n[p] /\ n[p] <= n[q])
         => ret[p] = SubSeq(ret[q], 1, n[p])

C10_Witness ==
  \E p, q \in Invocations :
    /\ Returned(p) /\ Returned(q) /\ seed[p] = seed[q]
    /\ 1 <= n[p] /\ n[p] < n[q]
    /\ ret[q][1].true_polarity # ret[q][n[q]].true_polarity

====
